---- MODULE Spec2Model ----
(***************************************************************************)
(* Product catalog controller (src/controllers/product.controller.js) as a *)
(* state machine: one action per request handler.  The document store and  *)
(* the media hosting service are the state; a handler's outcome is left in *)
(* res (the response, or the error handed to next) and calls (the media    *)
(* calls the request made).                                                *)
(***************************************************************************)
EXTENDS Integers, Sequences, FiniteSets, TLC

VARIABLES store, media, now, nextPid, res, calls

vars == <<store, media, now, nextPid, res, calls>>

-----------------------------------------------------------------------------
(* Bounds of the model *)

MaxProducts == 2
MaxTime == 3

-----------------------------------------------------------------------------
(* Values *)

Null == [null |-> TRUE]
NoPid == <<>>
NoSku == 0
NoQuery == <<"undefined">>

\* the names the media service gives to uploaded files, in upload order
Digit == <<"1", "2">>

MaxPid == Len(Digit)

\* the handle the media service gives the k-th uploaded file: folder/name
PidOf(k) == <<"p", "/", Digit[k]>>

\* upload.array('images', 10)
RouteMaxFiles == 10

Min(a, b) == IF a < b THEN a ELSE b

Ids == 1..(MaxProducts + 1)

Fields ==
    {"_id", "__v", "createdAt", "updatedAt", "name", "brand", "description",
     "category", "sku", "images", "sizeChart", "isActive", "averageRating",
     "reviewCount"}

SchemaDefault ==
    [_id |-> 0, __v |-> 0, createdAt |-> 0, updatedAt |-> 0, name |-> <<>>,
     brand |-> <<>>, description |-> <<>>, category |-> "none", sku |-> NoSku,
     images |-> <<>>, sizeChart |-> [imagePublicId |-> NoPid], isActive |-> TRUE,
     averageRating |-> 0, reviewCount |-> 0]

-----------------------------------------------------------------------------
(* Text: strings are sequences of characters *)

ToLower(c) ==
    CASE c = "A" -> "a"
      [] c = "N" -> "n"
      [] c = "C" -> "c"
      [] OTHER -> c

LowerCase(s) == [k \in 1..Len(s) |-> ToLower(s[k])]

CopySuffix == <<" ", "(", "C", "o", "p", "y", ")">>

\* pattern occurs in text as a substring
Occurs(pattern, text) ==
    \E k \in 0..(Len(text) - Len(pattern)) :
        \A j \in 1..Len(pattern) : text[k + j] = pattern[j]

\* new RegExp(src, 'i') throws a SyntaxError on an unbalanced parenthesis
RegExpValid(src) == \A k \in 1..Len(src) : src[k] # "("

\* new RegExp(src, 'i').test(text), src a literal pattern
RegExpTest(src, text) == Occurs(LowerCase(src), LowerCase(text))

\* decodeURIComponent: an escape %2F becomes "/", a lone % is malformed
URIValid(s) == \A k \in 1..Len(s) : s[k] # "%"

decodeURIComponent(s) == [k \in 1..Len(s) |-> IF s[k] = "%2F" THEN "/" ELSE s[k]]

-----------------------------------------------------------------------------
(* Document store: the Product model behind find, findById, create, save *)

\* a lookup that falls back to the first record when the id is unknown
findOneOrFirst(st, id) ==
    IF id \in DOMAIN st THEN st[id]
    ELSE IF DOMAIN st # {} THEN st[CHOOSE i \in DOMAIN st : \A j \in DOMAIN st : i <= j]
    ELSE Null

findById(st, id) == IF id \in DOMAIN st THEN st[id] ELSE Null

\* the unique index on sku: another record already holds this sku
SkuTaken(st, sku, self) == \E i \in DOMAIN st : i # self /\ st[i].sku = sku

\* the pre-save hook generates a sku no record holds when none is given
GenerateSku(st) ==
    CHOOSE k \in 1..(Cardinality(DOMAIN st) + 1) :
        /\ ~SkuTaken(st, k, 0)
        /\ \A j \in 1..(k - 1) : SkuTaken(st, j, 0)

PreSave(st, doc) ==
    IF doc.sku = NoSku THEN [doc EXCEPT !.sku = GenerateSku(st)] ELSE doc

\* save is rejected by the store when the sku is held by another record
SaveAccepted(st, doc) == ~SkuTaken(st, PreSave(st, doc).sku, doc._id)

Save(st, doc, t) ==
    [i \in DOMAIN st \cup {doc._id} |->
        IF i = doc._id THEN [PreSave(st, doc) EXCEPT !.updatedAt = t] ELSE st[i]]

\* a new document: the body's schema fields, defaults for the others, a
\* fresh id, version 0 and both timestamps at the time of creation
NewDoc(body, id, t) ==
    [f \in Fields |->
        CASE f = "_id" -> id
          [] f \in {"createdAt", "updatedAt"} -> t
          [] f = "__v" -> 0
          [] OTHER -> IF f \in DOMAIN body THEN body[f] ELSE SchemaDefault[f]]

NewId(st) == Cardinality(DOMAIN st) + 1

\* .sort('createdAt') / .sort('-createdAt'); equal keys in id order
Before(st, i, j, desc) ==
    \/ (~desc /\ st[i].createdAt < st[j].createdAt)
    \/ (desc /\ st[i].createdAt > st[j].createdAt)
    \/ (st[i].createdAt = st[j].createdAt /\ i < j)

RECURSIVE SortIds(_, _, _)
SortIds(st, S, desc) ==
    IF S = {} THEN <<>>
    ELSE LET first == CHOOSE i \in S : \A j \in S \ {i} : Before(st, i, j, desc)
         IN <<first>> \o SortIds(st, S \ {first}, desc)

RECURSIVE NaturalOrder(_)
NaturalOrder(S) ==
    IF S = {} THEN <<>>
    ELSE LET first == CHOOSE i \in S : \A j \in S : i <= j
         IN <<first>> \o NaturalOrder(S \ {first})

Docs(st, ids) == [k \in 1..Len(ids) |-> st[ids[k]]]

Range(s) == {s[k] : k \in 1..Len(s)}

-----------------------------------------------------------------------------
(* Media hosting service: upload and deletion by publicId *)

\* deleteCloudinaryImage: the image is gone when the call succeeds
DeleteOne(m, pid, ok) == IF ok THEN m \ {pid} ELSE m

\* deleteMultipleImages: all are gone when the call succeeds; a failed call
\* may have removed some of them already
DeleteMany(m, pids, ok, gone) == IF ok THEN m \ pids ELSE m \ gone

-----------------------------------------------------------------------------
(* Responses *)

NoReq == [id |-> 0]

Response(op, req, status, success, products, images) ==
    [op |-> op, req |-> req, status |-> status, success |-> success,
     products |-> products, images |-> images, forwarded |-> FALSE]

\* catch (error) { next(error) }: no response is sent by the handler
Forwarded(op, req) ==
    [op |-> op, req |-> req, status |-> 0, success |-> FALSE,
     products |-> <<>>, images |-> <<>>, forwarded |-> TRUE]

NotFound(op, req) == Response(op, req, 404, FALSE, <<>>, <<>>)

Init ==
    /\ store = <<>>
    /\ media = {}
    /\ now = 1
    /\ nextPid = 1
    /\ res = Response("none", NoReq, 0, FALSE, <<>>, <<>>)
    /\ calls = <<>>

-----------------------------------------------------------------------------
(* Request inputs *)

\* the body of a new product as the admin client sends it
NewProduct(sku, images, chart) ==
    [name |-> <<"A">>, brand |-> <<"N">>, description |-> <<"c">>,
     category |-> "tops", sku |-> sku, images |-> images,
     sizeChart |-> [imagePublicId |-> chart]]

ImagePids(doc) == {doc.images[k].publicId : k \in 1..Len(doc.images)}

DocPids(doc) == ImagePids(doc) \cup ({doc.sizeChart.imagePublicId} \ {NoPid})

\* uploaded images no product record carries yet, in upload order
FreePids ==
    LET free == {k \in 1..(nextPid - 1) :
                    /\ PidOf(k) \in media
                    /\ \A i \in DOMAIN store : PidOf(k) \notin DocPids(store[i])}
    IN [j \in 1..Cardinality(free) |-> PidOf(NaturalOrder(free)[j])]

\* the client attaches the images it uploaded and has not attached yet:
\* all of them as images, or the last one as the size chart
CreateBodies ==
    {NewProduct(9, <<>>, NoPid)}
    \cup {NewProduct(NoSku, [k \in 1..n |-> [publicId |-> FreePids[k]]], NoPid) :
            n \in {Len(FreePids)} \ {0}}
    \cup {NewProduct(NoSku, [k \in 1..(n - 1) |-> [publicId |-> FreePids[k]]], FreePids[n]) :
            n \in {Len(FreePids)} \ {0}}

UpdateBodies ==
    {[_id |-> 2, __v |-> 7, createdAt |-> 0, updatedAt |-> 0, brand |-> <<"a">>,
      category |-> "shoes"],
     [isActive |-> TRUE, averageRating |-> 4, reviewCount |-> 2, sku |-> 9]}

ListRequests ==
    {[id |-> 0, page |-> 1, limit |-> 10, category |-> "", brand |-> <<>>,
      sortBy |-> "-createdAt"],
     [id |-> 0, page |-> 2, limit |-> 1, category |-> "", brand |-> <<>>,
      sortBy |-> "createdAt"],
     [id |-> 0, page |-> 1, limit |-> 10, category |-> "tops", brand |-> <<"n">>,
      sortBy |-> "-createdAt"]}

AllPids == {PidOf(k) : k \in 1..MaxPid}

Queries == {NoQuery, <<>>, <<"a">>, <<"(">>}

Handles == {<<>>, <<"p", "%">>, <<"p", "%2F", "1">>}

-----------------------------------------------------------------------------
(* Handlers *)

\* an await whose rejection never reaches the handler's catch
AwaitedSwallowed(ok) == TRUE

\* await call(): the handler goes on only when the call fulfils
Awaited(ok) == ok

\* an await with the .catch left out
AwaitedBare(ok) == ok

\* await call().catch(log): the rejection is consumed by the handler given
AwaitedWithCatch(ok) == TRUE

\* the list filter without isActive: true
ListQueryAll(st, category, brand) ==
    {i \in DOMAIN st :
        /\ (category # "" => st[i].category = category)
        /\ (brand # <<>> => RegExpTest(brand, st[i].brand))}

\* query = { isActive: true } narrowed by category and brand; the $text
\* search term is evaluated by the store's text index and is not modelled
ListQuery(st, category, brand) ==
    {i \in DOMAIN st :
        /\ st[i].isActive = TRUE
        /\ (category # "" => st[i].category = category)
        /\ (brand # <<>> => RegExpTest(brand, st[i].brand))}

Page(ids, page, limit) ==
    SubSeq(ids, (page - 1) * limit + 1, Min(page * limit, Len(ids)))

getAllProducts ==
    \E req \in ListRequests :
        LET page == req.page
            limit == req.limit
            category == req.category
            brand == req.brand
            sortBy == req.sortBy
            query == ListQuery(store, category, brand)
            products == Docs(store, Page(SortIds(store, query, sortBy = "-createdAt"),
                                         page, limit))
            count == Cardinality(query)
        IN /\ res' = Response("getAllProducts", req, 200, TRUE, products, <<>>)
                      @@ [count |-> Len(products), total |-> count,
                          totalPages |-> (count + limit - 1) \div limit]
           /\ calls' = <<>>
           /\ UNCHANGED <<store, media, now, nextPid>>

getProduct ==
    \E id \in Ids :
        LET req == [id |-> id]
            product == findById(store, id)
        IN /\ res' = IF product = Null
                     THEN NotFound("getProduct", req)
                     ELSE Response("getProduct", req, 200, TRUE, <<product>>, <<>>)
           /\ calls' = <<>>
           /\ UNCHANGED <<store, media, now, nextPid>>

createProduct ==
    \E body \in CreateBodies :
        LET req == [id |-> 0, body |-> body]
            product == NewDoc(body, NewId(store), now)
        IN /\ Cardinality(DOMAIN store) < MaxProducts
           /\ now <= MaxTime
           /\ IF SaveAccepted(store, product)
              THEN /\ store' = Save(store, product, now)
                   /\ now' = now + 1
                   /\ res' = Response("createProduct", req, 201, TRUE,
                                      <<store'[product._id]>>, <<>>)
              ELSE /\ res' = Forwarded("createProduct", req)
                   /\ UNCHANGED <<store, now>>
           /\ calls' = <<>>
           /\ UNCHANGED <<media, nextPid>>

\* a deny list that forgets the version marker and the creation timestamp
immutableFieldsShort == {"_id", "updatedAt"}

immutableFields == {"_id", "__v", "createdAt", "updatedAt"}

\* Object.keys(req.body).forEach: every key but the immutable ones is assigned
AssignFields(product, body) ==
    [f \in Fields |->
        IF f \in DOMAIN body /\ f \notin immutableFields THEN body[f] ELSE product[f]]

updateProduct ==
    \E id \in Ids, body \in UpdateBodies :
        LET req == [id |-> id, body |-> body]
            found == findById(store, id)
            product == AssignFields(found, body)
        IN /\ calls' = <<>>
           /\ UNCHANGED <<media, nextPid>>
           /\ IF found = Null
              THEN /\ res' = NotFound("updateProduct", req)
                   /\ UNCHANGED <<store, now>>
              ELSE /\ now <= MaxTime
                   /\ IF SaveAccepted(store, product)
                      THEN /\ store' = Save(store, product, now)
                           /\ now' = now + 1
                           /\ res' = Response("updateProduct", req, 200, TRUE,
                                              <<store'[product._id]>>, <<>>)
                      ELSE /\ res' = Forwarded("updateProduct", req)
                           /\ UNCHANGED <<store, now>>

\* a delete that flips the flag
ToggleActive(product) == [product EXCEPT !.isActive = ~product.isActive]

\* product.isActive = false
SoftDelete(product) == [product EXCEPT !.isActive = FALSE]

\* a delete that removes the record from the store
HardDelete(st, product, t) == [i \in DOMAIN st \ {product._id} |-> st[i]]

\* product.isActive = false; await product.save()
DeleteWrite(st, product, t) == Save(st, SoftDelete(product), t)

PublicIds(product) == [k \in 1..Len(product.images) |-> product.images[k].publicId]

deleteProduct ==
    \E id \in Ids, okImages \in BOOLEAN, okChart \in BOOLEAN, gone \in SUBSET AllPids :
        LET req == [id |-> id]
            product == findById(store, id)
            hasImages == Len(product.images) > 0
            publicIds == PublicIds(product)
            chart == product.sizeChart.imagePublicId
            hasChart == chart # NoPid
            imagesDone == ~hasImages \/ AwaitedWithCatch(okImages)
            chartTried == imagesDone /\ hasChart
            chartDone == imagesDone /\ (~hasChart \/ AwaitedWithCatch(okChart))
            media1 == IF hasImages
                      THEN DeleteMany(media, Range(publicIds), okImages, gone)
                      ELSE media
            media2 == IF chartTried THEN DeleteOne(media1, chart, okChart) ELSE media1
            deleted == SoftDelete(product)
        IN /\ UNCHANGED nextPid
           /\ IF product = Null
              THEN /\ okImages /\ okChart /\ gone = {}
                   /\ res' = NotFound("deleteProduct", req)
                   /\ calls' = <<>>
                   /\ UNCHANGED <<store, media, now>>
              ELSE /\ now <= MaxTime
                   /\ hasImages => (gone \subseteq Range(publicIds)
                                    /\ (okImages <=> gone = Range(publicIds)))
                   /\ ~hasImages => (okImages /\ gone = {})
                   /\ ~hasChart => okChart
                   /\ media' = media2
                   /\ calls' =
                        (IF hasImages
                         THEN <<[fn |-> "deleteMultipleImages", arg |-> publicIds,
                                 ok |-> okImages]>>
                         ELSE <<>>)
                        \o (IF chartTried
                            THEN <<[fn |-> "deleteCloudinaryImage", arg |-> chart,
                                    ok |-> okChart]>>
                            ELSE <<>>)
                   /\ IF chartDone /\ SaveAccepted(store, deleted)
                      THEN /\ store' = DeleteWrite(store, product, now)
                           /\ now' = now + 1
                           /\ res' = Response("deleteProduct", req, 200, TRUE, <<>>, <<>>)
                      ELSE /\ res' = Forwarded("deleteProduct", req)
                           /\ UNCHANGED <<store, now>>

\* a copy that keeps the aggregates of the source
DuplicateDataKeepRatings(original) ==
    [f \in Fields \ {"_id", "__v", "createdAt", "updatedAt"} |->
        CASE f = "name" -> original.name \o CopySuffix
          [] f = "sku" -> NoSku
          [] OTHER -> original[f]]

\* toObject() without _id, __v, createdAt, updatedAt; name, sku and the two
\* aggregates replaced
DuplicateData(original) ==
    [f \in Fields \ {"_id", "__v", "createdAt", "updatedAt"} |->
        CASE f = "name" -> original.name \o CopySuffix
          [] f = "sku" -> NoSku
          [] f = "averageRating" -> 0
          [] f = "reviewCount" -> 0
          [] OTHER -> original[f]]

duplicateProduct ==
    \E id \in Ids :
        LET req == [id |-> id]
            originalProduct == findById(store, id)
            productData == DuplicateData(originalProduct)
            duplicated == NewDoc(productData, NewId(store), now)
        IN /\ calls' = <<>>
           /\ UNCHANGED <<media, nextPid>>
           /\ IF originalProduct = Null
              THEN /\ res' = NotFound("duplicateProduct", req)
                   /\ UNCHANGED <<store, now>>
              ELSE /\ Cardinality(DOMAIN store) < MaxProducts
                   /\ now <= MaxTime
                   /\ IF SaveAccepted(store, duplicated)
                      THEN /\ store' = Save(store, duplicated, now)
                           /\ now' = now + 1
                           /\ res' = Response("duplicateProduct", req, 201, TRUE,
                                              <<store'[duplicated._id]>>, <<>>)
                      ELSE /\ res' = Forwarded("duplicateProduct", req)
                           /\ UNCHANGED <<store, now>>

SearchLimit == 20

\* a check that only catches the missing parameter
MissingQueryStrict(q) == q = NoQuery

\* if (!q): the parameter is missing or empty
MissingQuery(q) == q = NoQuery \/ q = <<>>

SearchQuery(st, q) ==
    {i \in DOMAIN st :
        /\ \/ RegExpTest(q, st[i].name)
           \/ RegExpTest(q, st[i].brand)
           \/ RegExpTest(q, st[i].description)
        /\ st[i].isActive = TRUE}

searchProducts ==
    \E q \in Queries :
        LET req == [id |-> 0, q |-> q]
            found == NaturalOrder(SearchQuery(store, q))
            products == Docs(store, SubSeq(found, 1, Min(SearchLimit, Len(found))))
        IN /\ res' = IF MissingQuery(q)
                     THEN Response("searchProducts", req, 400, FALSE, <<>>, <<>>)
                     ELSE IF ~RegExpValid(q)
                     THEN Forwarded("searchProducts", req)
                     ELSE Response("searchProducts", req, 200, TRUE, products, <<>>)
           /\ calls' = <<>>
           /\ UNCHANGED <<store, media, now, nextPid>>

\* the media service stores each file under a new publicId
Uploaded(first, n) == [k \in 1..n |-> [publicId |-> PidOf(first + k - 1)]]

uploadImages ==
    \E files \in 0..Min(RouteMaxFiles, MaxPid), ok \in BOOLEAN :
        LET req == [id |-> 0, files |-> files]
            uploadedImages == Uploaded(nextPid, files)
        IN /\ nextPid + files - 1 <= MaxPid
           /\ UNCHANGED <<store, now>>
           /\ IF files = 0
              THEN /\ ok
                   /\ res' = Response("uploadImages", req, 400, FALSE, <<>>, <<>>)
                   /\ calls' = <<>>
                   /\ UNCHANGED <<media, nextPid>>
              ELSE /\ calls' = <<[fn |-> "uploadProductImages", arg |-> files, ok |-> ok]>>
                   /\ IF Awaited(ok)
                      THEN /\ media' = media \cup {uploadedImages[k].publicId : k \in 1..files}
                           /\ nextPid' = nextPid + files
                           /\ res' = Response("uploadImages", req, 200, TRUE, <<>>,
                                              uploadedImages)
                      ELSE /\ res' = Forwarded("uploadImages", req)
                           /\ UNCHANGED <<media, nextPid>>

deleteImage ==
    \E publicId \in Handles, ok \in BOOLEAN :
        LET req == [id |-> 0, publicId |-> publicId]
            decodedPublicId == decodeURIComponent(publicId)
        IN /\ UNCHANGED <<store, now, nextPid>>
           /\ IF publicId = <<>>
              THEN /\ ok
                   /\ res' = Response("deleteImage", req, 400, FALSE, <<>>, <<>>)
                   /\ calls' = <<>>
                   /\ UNCHANGED media
              ELSE IF ~URIValid(publicId)
              THEN /\ ok
                   /\ res' = Forwarded("deleteImage", req)
                   /\ calls' = <<>>
                   /\ UNCHANGED media
              ELSE /\ calls' = <<[fn |-> "deleteCloudinaryImage", arg |-> decodedPublicId,
                                  ok |-> ok]>>
                   /\ media' = DeleteOne(media, decodedPublicId, ok)
                   /\ res' = IF Awaited(ok)
                             THEN Response("deleteImage", req, 200, TRUE, <<>>, <<>>)
                             ELSE Forwarded("deleteImage", req)

uploadSizeChart ==
    \E file \in BOOLEAN, ok \in BOOLEAN :
        LET req == [id |-> 0, file |-> file]
            uploadedImage == Uploaded(nextPid, 1)
        IN /\ UNCHANGED <<store, now>>
           /\ IF ~file
              THEN /\ ok
                   /\ res' = Response("uploadSizeChart", req, 400, FALSE, <<>>, <<>>)
                   /\ calls' = <<>>
                   /\ UNCHANGED <<media, nextPid>>
              ELSE /\ nextPid <= MaxPid
                   /\ calls' = <<[fn |-> "uploadSizeChartImage", arg |-> 1, ok |-> ok]>>
                   /\ IF Awaited(ok)
                      THEN /\ media' = media \cup {uploadedImage[1].publicId}
                           /\ nextPid' = nextPid + 1
                           /\ res' = Response("uploadSizeChart", req, 200, TRUE, <<>>,
                                              uploadedImage)
                      ELSE /\ res' = Forwarded("uploadSizeChart", req)
                           /\ UNCHANGED <<media, nextPid>>

-----------------------------------------------------------------------------

Next ==
    \/ getAllProducts
    \/ getProduct
    \/ createProduct
    \/ updateProduct
    \/ deleteProduct
    \/ duplicateProduct
    \/ searchProducts
    \/ uploadImages
    \/ deleteImage
    \/ uploadSizeChart

Spec == Init /\ [][Next]_vars

TypeOK ==
    /\ DOMAIN store = 1..Cardinality(DOMAIN store)
    /\ \A i \in DOMAIN store : store[i]._id = i /\ DOMAIN store[i] = Fields
    /\ media \subseteq AllPids
    /\ now \in 1..(MaxTime + 1)
    /\ nextPid \in 1..(MaxPid + 1)

-----------------------------------------------------------------------------
(* Properties *)

ByIdOps == {"getProduct", "updateProduct", "deleteProduct", "duplicateProduct"}

\* C1: no step removes a record from the store, whatever the operation, and
\* a Delete that finds its record changes only that record's isActive (to
\* false) and its system-managed updatedAt.
C1_NeverPhysicallyDeleted ==
    [][/\ \A i \in DOMAIN store : i \in DOMAIN store' /\ store'[i]._id = i
       /\ (res'.op = "deleteProduct" /\ res'.req.id \in DOMAIN store) =>
            /\ store'[res'.req.id].isActive = FALSE
            /\ \A f \in Fields \ {"isActive", "updatedAt"} :
                 store'[res'.req.id][f] = store[res'.req.id][f]
            /\ \A i \in DOMAIN store \ {res'.req.id} : store'[i] = store[i]
            /\ DOMAIN store' = DOMAIN store]_vars

\* a Delete has answered 200 and its record is still stored, inactive
C1_Witness ==
    /\ res.op = "deleteProduct"
    /\ res.status = 200
    /\ res.req.id \in DOMAIN store
    /\ store[res.req.id].isActive = FALSE

\* C2: List and Search answer with active records only; Get-by-id answers
\* with the stored record of any stored id, active or not.
C2_ReadsAndSoftDelete ==
    /\ (res.op \in {"getAllProducts", "searchProducts"}) =>
          \A k \in 1..Len(res.products) :
              /\ res.products[k].isActive = TRUE
              /\ res.products[k] = store[res.products[k]._id]
    /\ (res.op = "getProduct" /\ res.req.id \in DOMAIN store) =>
          /\ res.status = 200
          /\ res.products = <<store[res.req.id]>>

\* Get-by-id has returned a soft-deleted record
C2_Witness ==
    /\ res.op = "getProduct"
    /\ res.status = 200
    /\ res.products[1].isActive = FALSE

\* a List has answered while a soft-deleted record is in the store
C2_ListWitness ==
    /\ res.op = "getAllProducts"
    /\ \E i \in DOMAIN store : store[i].isActive = FALSE
    /\ Len(res.products) > 0

\* C3: Get, Update, Delete and Duplicate of an id that is not stored answer
\* 404 with success = false, hand no error to next, make no media call and
\* leave the store and the media service as they were.
C3_UnknownIdNotFound ==
    [][(res'.op \in ByIdOps /\ res'.req.id \notin DOMAIN store) =>
          /\ res'.status = 404
          /\ res'.success = FALSE
          /\ res'.forwarded = FALSE
          /\ calls' = <<>>
          /\ store' = store
          /\ media' = media]_vars

\* Duplicate of an unknown id has answered 404 while the store holds records
C3_Witness ==
    /\ res.op = "duplicateProduct"
    /\ res.status = 404
    /\ store # <<>>
    /\ media # {}

\* C4: a Delete that finds its record answers 200 with success = true and
\* leaves the record inactive whatever the two cleanup calls did; the bulk
\* image deletion is attempted when the record has images and the
\* size-chart deletion when it has a size-chart image, each whether or not
\* the other failed.
C4_DeleteSurvivesCleanupFailure ==
    (res.op = "deleteProduct" /\ res.req.id \in DOMAIN store) =>
        LET product == store[res.req.id]
        IN /\ res.status = 200
           /\ res.success = TRUE
           /\ res.forwarded = FALSE
           /\ product.isActive = FALSE
           /\ (Len(product.images) > 0) <=>
                 (\E k \in 1..Len(calls) :
                     /\ calls[k].fn = "deleteMultipleImages"
                     /\ calls[k].arg = PublicIds(product))
           /\ (product.sizeChart.imagePublicId # NoPid) <=>
                 (\E k \in 1..Len(calls) :
                     /\ calls[k].fn = "deleteCloudinaryImage"
                     /\ calls[k].arg = product.sizeChart.imagePublicId)

\* a Delete has answered 200 after both cleanup calls failed
C4_Witness ==
    /\ res.op = "deleteProduct"
    /\ res.status = 200
    /\ Len(calls) = 2
    /\ calls[1].ok = FALSE
    /\ calls[2].ok = FALSE

\* C5: a Delete of a record that is already inactive answers 200 again and
\* leaves it inactive, whatever the media service answers to the repeated
\* cleanup.
C5_DeleteIdempotent ==
    [][(/\ res'.op = "deleteProduct"
        /\ res'.req.id \in DOMAIN store
        /\ store[res'.req.id].isActive = FALSE) =>
          /\ res'.status = 200
          /\ res'.forwarded = FALSE
          /\ res'.req.id \in DOMAIN store'
          /\ store'[res'.req.id].isActive = FALSE]_vars

\* the only record was created at time 1 and deleted at times 2 and 3, the
\* second cleanup failing (no update was applied: brand and rating are as created)
C5_Witness ==
    /\ res.op = "deleteProduct"
    /\ res.status = 200
    /\ DOMAIN store = {1}
    /\ store[1].createdAt = 1
    /\ store[1].updatedAt = 3
    /\ store[1].isActive = FALSE
    /\ store[1].brand = <<"N">>
    /\ store[1].averageRating = 0
    /\ Len(calls) > 0
    /\ \A k \in 1..Len(calls) : calls[k].ok = FALSE

\* C6: an Update that finds its record never changes the record's _id,
\* createdAt or __v, also when the body supplies them; when the store
\* accepts the save, every other supplied key holds the supplied value and
\* every key not supplied (updatedAt aside) holds its prior value.
C6_UpdateKeepsImmutables ==
    [][(res'.op = "updateProduct" /\ res'.req.id \in DOMAIN store) =>
          LET old == store[res'.req.id]
              new == store'[res'.req.id]
              body == res'.req.body
          IN /\ new._id = old._id
             /\ new.createdAt = old.createdAt
             /\ new.__v = old.__v
             /\ res'.status = 200 =>
                  \A f \in Fields \ {"_id", "__v", "createdAt", "updatedAt"} :
                      new[f] = IF f \in DOMAIN body THEN body[f] ELSE old[f]
             /\ res'.status # 200 => (res'.forwarded /\ new = old)]_vars

\* an Update whose body carried _id, __v and createdAt has answered 200
C6_Witness ==
    /\ res.op = "updateProduct"
    /\ res.status = 200
    /\ {"_id", "__v", "createdAt"} \subseteq DOMAIN res.req.body
    /\ store[res.req.id].brand = res.req.body.brand
    /\ store[res.req.id]._id # res.req.body._id

CopiedFields ==
    {"brand", "description", "category", "images", "sizeChart", "isActive"}

\* C7 as stated: the copy's sku, averageRating and reviewCount all differ
\* from the source's, its name is the source's followed by " (Copy)" and
\* its other copyable fields equal the source's.
C7_DuplicateDiffers ==
    (res.op = "duplicateProduct" /\ res.status = 201) =>
        LET source == store[res.req.id]
            copy == res.products[1]
        IN /\ copy.sku # source.sku
           /\ copy.averageRating # source.averageRating
           /\ copy.reviewCount # source.reviewCount
           /\ copy.name = source.name \o <<" ", "(", "C", "o", "p", "y", ")">>
           /\ \A f \in CopiedFields : copy[f] = source[f]

\* C7 amended: Duplicate of a stored id adds exactly one record; its
\* averageRating and reviewCount are zero, its sku is not the source's, its
\* name is the source's followed by " (Copy)", its other copyable fields
\* (isActive included) equal the source's, and no stored record changes.
C7_DuplicateResets ==
    [][(res'.op = "duplicateProduct" /\ res'.req.id \in DOMAIN store) =>
          LET source == store[res'.req.id]
              added == DOMAIN store' \ DOMAIN store
          IN /\ res'.status = 201
             /\ Cardinality(added) = 1
             /\ \A i \in DOMAIN store : store'[i] = store[i]
             /\ \A n \in added :
                  /\ res'.products = <<store'[n]>>
                  /\ store'[n].sku # source.sku
                  /\ store'[n].averageRating = 0
                  /\ store'[n].reviewCount = 0
                  /\ store'[n].name = source.name \o <<" ", "(", "C", "o", "p", "y", ")">>
                  /\ \A f \in CopiedFields : store'[n][f] = source[f]]_vars

\* a soft-deleted product has been duplicated into another inactive one
C7_Witness ==
    /\ res.op = "duplicateProduct"
    /\ res.status = 201
    /\ store[res.req.id].isActive = FALSE
    /\ res.products[1].isActive = FALSE
    /\ res.products[1]._id # res.req.id

\* the request lacks a required input
MissingInput ==
    \/ res.op = "searchProducts" /\ res.req.q \in {NoQuery, <<>>}
    \/ res.op = "uploadImages" /\ res.req.files = 0
    \/ res.op = "uploadSizeChart" /\ res.req.file = FALSE
    \/ res.op = "deleteImage" /\ res.req.publicId = <<>>

UnknownId == res.op \in ByIdOps /\ res.req.id \notin DOMAIN store

Answered == res.op # "none" /\ res.forwarded = FALSE

\* C8 as stated: 404 for an unknown id, 400 for a missing input, 201 for a
\* successful create, duplicate or upload, 200 for every other success.
C8_StatusCodes ==
    Answered =>
        res.status =
            IF UnknownId THEN 404
            ELSE IF MissingInput THEN 400
            ELSE IF res.op \in {"createProduct", "duplicateProduct", "uploadImages",
                                "uploadSizeChart"} THEN 201
            ELSE 200

\* C8 amended: 404 for an unknown id, 400 for a missing input, 201 for a
\* successful create or duplicate, 200 for every other success, Upload
\* images and Upload size chart included; success is true exactly on 200
\* and 201.
C8_StatusCodesUpload200 ==
    Answered =>
        /\ res.status =
              IF UnknownId THEN 404
              ELSE IF MissingInput THEN 400
              ELSE IF res.op \in {"createProduct", "duplicateProduct"} THEN 201
              ELSE 200
        /\ res.success <=> res.status \in {200, 201}

\* an upload of images has been answered with its images
C8_Witness ==
    /\ res.op = "uploadImages"
    /\ res.forwarded = FALSE
    /\ res.success = TRUE
    /\ Len(res.images) > 0

\* C9: Delete image hands the media service's failure to next and sends no
\* success response; when the service succeeds it answers 200 and the
\* decoded handle is gone; in both cases the store is unchanged.
C9_DeleteImagePropagates ==
    [][(res'.op = "deleteImage") =>
          /\ store' = store
          /\ \A k \in 1..Len(calls') :
               /\ calls'[k].arg = <<"p", "/", "1">>
               /\ calls'[k].ok = FALSE =>
                    /\ res'.forwarded = TRUE
                    /\ res'.success = FALSE
                    /\ res'.status = 0
               /\ calls'[k].ok = TRUE =>
                    /\ res'.status = 200
                    /\ media' = media \ {<<"p", "/", "1">>}]_vars

\* the media service has failed a Delete image while a record carries the image
C9_Witness ==
    /\ res.op = "deleteImage"
    /\ res.forwarded = TRUE
    /\ Len(calls) = 1
    /\ calls[1].ok = FALSE
    /\ \E i \in DOMAIN store : calls[1].arg \in DocPids(store[i])

\* C10: a Delete removes from the media service only images that no other
\* active product carries.
C10_DeleteRemovesOnlyOwnImages ==
    [][(res'.op = "deleteProduct") =>
          \A x \in media \ media' :
              \A i \in DOMAIN store' \ {res'.req.id} :
                  store'[i].isActive => x \notin DocPids(store'[i])]_vars

====
